---- MODULE Spec2Model ----
(***************************************************************************)
(* Model of the totem backend (src/main.py): the POST /compose handler,     *)
(* the Gemini response scan, the subject resize arithmetic and the frame    *)
(* compositing, as state machines checked with TLC.                         *)
(***************************************************************************)
EXTENDS Integers, Sequences, FiniteSets, TLC

(***************************************************************************)
(* Binary64 arithmetic of lines 182-184.  A positive double is              *)
(* [e |-> exponent, m |-> <<1, d1, d2, d3, d4>>]: the 53-bit mantissa as a  *)
(* leading 1 and four digits of 13 bits, most significant first.  Its       *)
(* value is (m as an integer) * 2^(e - 52).  Python's float is binary64,    *)
(* and /, * round to nearest, ties to even.                                 *)
(***************************************************************************)
LimbBits == 13

Limb == 8192

max_dim == 1024

RECURSIVE Pow2(_)
Pow2(n) == IF n = 0 THEN 1 ELSE 2 * Pow2(n - 1)

\* the largest k >= 0 with b * 2^k <= a (a >= b >= 1)
RECURSIVE ShiftUpTo(_, _, _)
ShiftUpTo(a, b, k) == IF 2 * b <= a THEN ShiftUpTo(a, 2 * b, k + 1) ELSE k

\* the smallest k >= 0 with a * 2^k >= b
RECURSIVE ShiftUpFrom(_, _, _)
ShiftUpFrom(a, b, k) == IF a >= b THEN k ELSE ShiftUpFrom(2 * a, b, k + 1)

\* m + 1; carry is 1 when the mantissa overflowed to 2^53
RECURSIVE IncDigits(_, _)
IncDigits(m, i) ==
    IF i = 1 THEN [m |-> m, carry |-> 1]
    ELSE IF m[i] < Limb - 1 THEN [m |-> [m EXCEPT ![i] = m[i] + 1], carry |-> 0]
         ELSE IncDigits([m EXCEPT ![i] = 0], i - 1)

\* round to nearest, ties to even: up says the discarded part is above one
\* half, tie that it is exactly one half
RoundDigits(m, e, up, tie) ==
    IF up \/ (tie /\ m[5] % 2 = 1)
    THEN LET inc == IncDigits(m, 5)
         IN  IF inc.carry = 1 THEN [e |-> e + 1, m |-> <<1, 0, 0, 0, 0>>]
             ELSE [e |-> e, m |-> inc.m]
    ELSE [e |-> e, m |-> m]

\* float(a) / float(b) for positive integers below 2^13, correctly rounded:
\* long division of num / den (in [1, 2)), 13 bits at a time
FloatDiv(a, b) ==
    LET up == IF a >= b THEN ShiftUpTo(a, b, 0) ELSE 0
        dn == IF a >= b THEN 0 ELSE ShiftUpFrom(a, b, 0)
        num == a * Pow2(dn)
        den == b * Pow2(up)
        r0 == num - den
        d1 == (r0 * Limb) \div den
        r1 == (r0 * Limb) % den
        d2 == (r1 * Limb) \div den
        r2 == (r1 * Limb) % den
        d3 == (r2 * Limb) \div den
        r3 == (r2 * Limb) % den
        d4 == (r3 * Limb) \div den
        r4 == (r3 * Limb) % den
    IN  RoundDigits(<<1, d1, d2, d3, d4>>, up - dn, 2 * r4 > den, 2 * r4 = den)

FloatOne == [e |-> 0, m |-> <<1, 0, 0, 0, 0>>]

RECURSIVE DigitsLess(_, _, _)
DigitsLess(x, y, i) ==
    IF i > Len(x) THEN FALSE
    ELSE IF x[i] # y[i] THEN x[i] < y[i]
         ELSE DigitsLess(x, y, i + 1)

FloatLess(x, y) == x.e < y.e \/ (x.e = y.e /\ DigitsLess(x.m, y.m, 1))

\* Python's min(): the first argument unless a later one is smaller
FloatMin(x, y) == IF FloatLess(y, x) THEN y ELSE x

\* the number of bits of n >= 1
RECURSIVE BitLength(_)
BitLength(n) == IF n < 2 THEN 1 ELSE 1 + BitLength(n \div 2)

\* float(n) * x for a positive integer n below 2^13, correctly rounded: the
\* exact product digit by digit, then shifted right to 53 bits
FloatMulInt(n, x) ==
    LET t4 == n * x.m[5]
        t3 == n * x.m[4] + t4 \div Limb
        t2 == n * x.m[3] + t3 \div Limb
        t1 == n * x.m[2] + t2 \div Limb
        p0 == n * x.m[1] + t1 \div Limb
        p1 == t1 % Limb
        p2 == t2 % Limb
        p3 == t3 % Limb
        p4 == t4 % Limb
        extra == BitLength(p0) - 1
        lo == Pow2(extra)
        hi == Pow2(LimbBits - extra)
        Shifted(above, d) == (above % lo) * hi + d \div lo
        dropped == p4 % lo
    IN  RoundDigits(<<1, Shifted(p0, p1), Shifted(p1, p2), Shifted(p2, p3), Shifted(p3, p4)>>,
                    x.e + extra, 2 * dropped > lo, extra > 0 /\ 2 * dropped = lo)

\* int(x): truncation toward zero, for x below 2^14
FloatToInt(x) == IF x.e < 0 THEN 0 ELSE (Limb + x.m[2]) \div Pow2(LimbBits - x.e)

\* lines 180-185: the size the subject is resized to, or its own size
Scale(w, h) == FloatMin(FloatMin(FloatDiv(max_dim, w), FloatDiv(max_dim, h)), FloatOne)

NewSize(w, h) ==
    LET scale == Scale(w, h)
    IN  IF FloatLess(scale, FloatOne)
        THEN <<FloatToInt(FloatMulInt(w, scale)), FloatToInt(FloatMulInt(h, scale))>>
        ELSE <<w, h>>

\* line 185: Image.resize raises ValueError when a side of the requested size
\* is 0
ResizeRaises(size) == size[1] < 1 \/ size[2] < 1

(***************************************************************************)
(* Images and the frame step (lines 226-250).  An image is its size and a   *)
(* pixel for every coordinate; a pixel is <<r, g, b>> or <<r, g, b, a>>.    *)
(***************************************************************************)
Coords(w, h) == (0..(w - 1)) \X (0..(h - 1))

NoImage == [w |-> 0, h |-> 0, px |-> <<>>]

\* line 241: where the generated image is pasted
frame_offset == <<25, 270>>

\* convert("RGBA"), one pixel: a pixel without alpha becomes opaque
ConvertRGBA(pixel) == IF Len(pixel) = 4 THEN pixel ELSE pixel \o <<255>>

\* convert("RGB"), one pixel: the alpha channel is dropped
ConvertRGB(pixel) == SubSeq(pixel, 1, 3)

\* paste clips to the destination: p, a coordinate of the destination, takes
\* a pixel of src, put at off, when src reaches it
Covered(src, off, p) ==
    /\ p[1] >= off[1] /\ p[1] < off[1] + src.w
    /\ p[2] >= off[2] /\ p[2] < off[2] + src.h

\* line 241: paste(im, box) at coordinate p copies the pixel, alpha included
Paste(below, src, off, p) ==
    IF Covered(src, off, p) THEN ConvertRGBA(src.px[<<p[1] - off[1], p[2] - off[2]>>])
    ELSE below

\* Pillow's blend of one channel: (below * (255 - mask) + above * mask) / 255,
\* rounded
Blend(mask, below, above) ==
    LET tmp == below * (255 - mask) + above * mask + 128
    IN  ((tmp \div 256) + tmp) \div 256

\* the frame pasted without its mask
PasteNoMask(below, above, mask) == above

\* line 244: paste(im, box, mask) at one coordinate blends every channel by
\* the mask's alpha
PasteMask(below, above, mask) == [c \in 1..4 |-> Blend(mask[4], below[c], above[c])]

\* lines 238-247 at coordinate p of the frame's canvas
Composed(final_img, frame_img, p) ==
    LET empty == <<0, 0, 0, 0>>
        photo == Paste(empty, final_img, frame_offset, p)
        over == ConvertRGBA(frame_img.px[p])
    IN  ConvertRGB(PasteMask(photo, over, over))

\* lines 226-250: the image that is saved
ApplyFrame(final_img, present, frame_img) ==
    IF present
    THEN [w |-> frame_img.w, h |-> frame_img.h,
          px |-> [p \in Coords(frame_img.w, frame_img.h) |-> Composed(final_img, frame_img, p)]]
    ELSE [w |-> final_img.w, h |-> final_img.h,
          px |-> [p \in Coords(final_img.w, final_img.h) |->
                     ConvertRGB(ConvertRGBA(final_img.px[p]))]]

\* the generated images tried: a colour that tells the coordinate, with or
\* without an alpha channel
GenSizes == {<<1, 1>>, <<2, 2>>, <<3, 1>>, <<4, 4>>}

GenImage(size, mode) ==
    [w |-> size[1], h |-> size[2],
     px |-> [p \in Coords(size[1], size[2]) |->
                IF mode = "RGB" THEN <<10 + p[1], 20 + p[2], 30 + p[1] + p[2]>>
                ELSE <<10 + p[1], 20 + p[2], 30 + p[1] + p[2], 77>>]]

GenImages == {GenImage(size, mode) : size \in GenSizes, mode \in {"RGB", "RGBA"}}

\* the frames tried: an opaque border around a window at the offset, the same
\* with a half-transparent edge, a frame without a window and an empty one
FrameSizes == {<<27, 272>>, <<28, 273>>}

FrameStyles == {"window", "soft", "solid", "clear"}

FrameAlpha(style, x, y) ==
    CASE style = "solid" -> 255
      [] style = "clear" -> 0
      [] style = "window" -> IF x >= 24 /\ y >= 269 THEN 0 ELSE 255
      [] style = "soft" ->
            IF x >= 26 /\ y >= 271 THEN 0 ELSE IF x >= 24 /\ y >= 269 THEN 128 ELSE 255

FrameImage(size, style) ==
    [w |-> size[1], h |-> size[2],
     px |-> [p \in Coords(size[1], size[2]) |->
                IF FrameAlpha(style, p[1], p[2]) = 0 THEN <<255, 255, 255, 0>>
                ELSE <<200, 100 + (p[1] % 2), 50 + (p[2] % 3), FrameAlpha(style, p[1], p[2])>>]]

FrameImages == {FrameImage(size, style) : size \in FrameSizes, style \in FrameStyles}

\* the upload sizes the subject preparer is tried on
PrepDims == {1, 3, 500, 1000, 1122, 1500, 2000, 2048, 3000, 4096, 8000} \cup (1020..1030)

(***************************************************************************)
(* POST /compose (lines 162-298) and GET /ping (lines 87-90) on one event   *)
(* loop.  compose is "async def": after its one await (file.read, line 168) *)
(* the handler runs on the loop's thread to its return, the Gemini call     *)
(* (lines 110-116, a blocking call) included.                               *)
(***************************************************************************)
NumRequests == 2

Requests == 1..NumRequests

\* the values uuid.uuid4() can take (line 221); 0 is "no id yet"
IDs == 1..NumRequests

\* str(request.base_url): the origin followed by "/"
BaseUrls == {<<"http://localhost:8000", "/">>, <<"https://totem.example", "/">>}

UploadSizes == {<<2000, 1000>>, <<1025, 1>>}

Uploads ==
    {[kind |-> "unreadable", w |-> 0, h |-> 0], [kind |-> "notimage", w |-> 0, h |-> 0]}
        \cup {[kind |-> "image", w |-> s[1], h |-> s[2]] : s \in UploadSizes}

FileStates == {"missing", "ok", "corrupt"}

\* what candidate.content can be: None, or a content whose parts attribute is
\* absent, None or a list; a part has no inline_data, inline_data without
\* data, bytes that do not decode, or bytes that decode
Parts == {"no_inline", "no_data", "bad_bytes", "image_bytes"}

Content(ps) == [tag |-> "parts", parts |-> ps]

NoContent == [tag |-> "none", parts |-> <<>>]

PartsNone == [tag |-> "parts_none", parts |-> <<>>]

Contents ==
    {NoContent, PartsNone, [tag |-> "parts_absent", parts |-> <<>>], Content(<<>>)}
        \cup {Content(<<p>>) : p \in Parts}
        \cup {Content(<<"no_data", "image_bytes">>)}

\* what generate_content can return: candidates absent, None or a list
GeminiResponses ==
    {[tag |-> "absent", candidates |-> <<>>], [tag |-> "none", candidates |-> <<>>],
     [tag |-> "list", candidates |-> <<>>]}
        \cup {[tag |-> "list", candidates |-> <<c>>] : c \in Contents}
        \cup {[tag |-> "list", candidates |-> <<c, d>>] :
                 c \in {NoContent, Content(<<"no_inline">>)},
                 d \in {PartsNone, Content(<<"bad_bytes">>), Content(<<"image_bytes">>)}}

\* lines 128-143: "next" when the parts hold no image
RECURSIVE ScanParts(_, _)
ScanParts(parts, i) ==
    IF i > Len(parts) THEN "next"
    ELSE IF parts[i] \in {"no_inline", "no_data"} THEN ScanParts(parts, i + 1)
         ELSE IF parts[i] = "image_bytes" THEN "image" ELSE "open_error"

\* lines 123-146; getattr's default is used only when the attribute is absent,
\* so parts = None reaches the for statement, which raises TypeError
RECURSIVE ScanCandidates(_, _)
ScanCandidates(cands, i) ==
    IF i > Len(cands) THEN "no_image"
    ELSE LET c == cands[i]
         IN  IF c.tag \in {"none", "parts_absent"} THEN ScanCandidates(cands, i + 1)
             ELSE IF c.tag = "parts_none" THEN "type_error"
                  ELSE IF ScanParts(c.parts, 1) = "next" THEN ScanCandidates(cands, i + 1)
                       ELSE ScanParts(c.parts, 1)

\* lines 108-146: the outcome of gerar_imagem_gemini for an outcome of the call
gerar_imagem_gemini(out) ==
    IF out.tag = "raise" THEN "call_error"
    ELSE IF out.tag = "none" THEN "type_error"
         ELSE ScanCandidates(out.candidates, 1)

Detail(prefix, cause) == [detail |-> <<prefix, cause>>]

\* lines 212-216: {"detail": str(e)}
GeminiErrorBody(result) ==
    CASE result = "call_error" -> Detail("Erro ao chamar Gemini API: ", "exception")
      [] result = "open_error" -> Detail("Erro ao abrir imagem retornada pela Gemini: ", "exception")
      [] result = "no_image" -> Detail("Resposta da Gemini nao contem nenhuma imagem gerada.", "")
      [] result = "type_error" -> Detail("'NoneType' object is not iterable", "")

\* every image payload of a response, in order
RECURSIVE Payloads(_, _)
Payloads(cands, i) ==
    IF i > Len(cands) THEN <<>>
    ELSE SelectSeq(cands[i].parts, LAMBDA p : p \in {"bad_bytes", "image_bytes"})
             \o Payloads(cands, i + 1)

\* which way the generative step went, by what the collaborator returned
WayOf(out) ==
    IF out.tag = "raise" THEN "raised"
    ELSE IF Payloads(out.candidates, 1) = <<>> THEN "empty"
         ELSE IF Head(Payloads(out.candidates, 1)) = "bad_bytes" THEN "undecodable"
              ELSE "ok"

\* line 266: rstrip("/")
RECURSIVE RStrip(_)
RStrip(s) == IF s # <<>> /\ s[Len(s)] = "/" THEN RStrip(SubSeq(s, 1, Len(s) - 1)) ELSE s

\* lines 222 and 269, 275 and 286
FotoUrl(base, id) == [base |-> RStrip(base), dir |-> "/static/fotos/", file |-> <<id, ".jpg">>]

QrUrl(base, id) == [base |-> RStrip(base), dir |-> "/static/qr/", file |-> <<id, ".png">>]

\* lines 170-171: Image.open(...).convert("RGB") raises
DecodeFails(u) == u.kind = "notimage"

\* the decode error left to the handler's last except clause
InvalidImageAs500 ==
    [status |-> 500, body |-> Detail("Erro interno: ", "cannot identify image file")]

\* lines 172-175
InvalidImageResponse ==
    [status |-> 400, body |-> Detail("Arquivo enviado nao e uma imagem valida.", "")]

\* "not found" answered as 404
SceneNotFoundAs404 ==
    [status |-> 404, body |-> Detail("Cenario nao encontrado em ", "SCENE_FILE")]

\* lines 191-194
SceneNotFoundResponse ==
    [status |-> 500, body |-> Detail("Cenario nao encontrado em ", "SCENE_FILE")]

\* lines 199-202
SceneOpenErrorResponse == [status |-> 500, body |-> Detail("Erro ao abrir cenario: ", "exception")]

\* lines 258-261
SaveErrorResponse(cause) == [status |-> 500, body |-> Detail("Erro ao salvar imagem final: ", cause)]

\* the photo's URL returned alone when the QR file cannot be saved
QrErrorPartial == [status |-> 200, body |-> [final_url |-> "foto_url"]]

\* lines 281-284
QrErrorResponse == [status |-> 500, body |-> Detail("Erro ao salvar QR code: ", "OSError")]

\* line 298
InternalErrorResponse(cause) == [status |-> 500, body |-> Detail("Erro interno: ", cause)]

\* lines 291-294
SuccessResponse(base, id) ==
    [status |-> 200, body |-> [final_url |-> FotoUrl(base, id), qr_url |-> QrUrl(base, id)]]

NoResponse == [status |-> 0, body |-> [pending |-> TRUE]]

VARIABLES
    pc,           \* where each request is
    loop,         \* the request whose handler is running on the event loop, or 0
    upload,       \* the uploaded file of each request
    base_url,     \* request.base_url
    person_size,  \* person_img.size after step 2
    sceneFile,    \* SCENE_FILE on disk
    sceneSeen,    \* the scene file was on disk at some time while the request was handled
    called,       \* the requests that invoked the generative collaborator
    way,          \* how the generative step of each request went
    img_id,       \* img_id of each request
    fotos,        \* the <id>.jpg files of FOTOS_DIR
    qrs,          \* the <id>.png files of QR_DIR
    wrote,        \* the files each request wrote
    resp,         \* the response sent
    pingPending,  \* a GET /ping is waiting for its answer
    subject,      \* the subject preparer on its own: the upload's size and the size after
    generated,    \* the frame step on its own: the generated image,
    frame_asset,  \*   the frame asset, if present,
    artifact      \*   and the image that is saved

vars ==
    <<pc, loop, upload, base_url, person_size, sceneFile, sceneSeen, called, way,
      img_id, fotos, qrs, wrote, resp, pingPending, subject, generated, frame_asset, artifact>>

\* no request yet
ServerInit ==
    /\ pc = [r \in Requests |-> "idle"]
    /\ loop = 0
    /\ upload = [r \in Requests |-> [kind |-> "none", w |-> 0, h |-> 0]]
    /\ base_url = [r \in Requests |-> <<>>]
    /\ person_size = [r \in Requests |-> <<0, 0>>]
    /\ sceneSeen = [r \in Requests |-> FALSE]
    /\ called = {}
    /\ way = [r \in Requests |-> "none"]
    /\ img_id = [r \in Requests |-> 0]
    /\ fotos = {}
    /\ qrs = {}
    /\ wrote = [r \in Requests |-> {}]
    /\ resp = [r \in Requests |-> NoResponse]
    /\ pingPending = FALSE

NoSubject == [w |-> 0, h |-> 0, size |-> <<0, 0>>, step |-> "none"]

NoFrameStep ==
    /\ generated = NoImage
    /\ frame_asset = [present |-> FALSE, img |-> NoImage]
    /\ artifact = NoImage

Init ==
    /\ ServerInit
    /\ sceneFile \in FileStates
    /\ subject = NoSubject
    /\ NoFrameStep

server ==
    <<pc, loop, upload, base_url, person_size, sceneFile, sceneSeen, called, way, img_id, fotos,
      qrs, wrote, resp, pingPending>>

pure == <<subject, generated, frame_asset, artifact>>

files == <<fotos, qrs, wrote>>

\* a return of the handler: the response goes out and the loop is free again
Respond(r, response) ==
    /\ resp' = [resp EXCEPT ![r] = response]
    /\ pc' = [pc EXCEPT ![r] = "done"]
    /\ loop' = 0

\* a client sends POST /compose
Send(r) ==
    /\ pc[r] = "idle"
    /\ pc' = [pc EXCEPT ![r] = "sent"]
    /\ UNCHANGED <<loop, upload, base_url, person_size, sceneFile, sceneSeen, called, way, img_id, files, resp, pingPending, pure>>

\* lines 162-168: the loop starts the handler, which suspends at await file.read()
Accept(r) ==
    /\ pc[r] = "sent"
    /\ loop = 0
    /\ pc' = [pc EXCEPT ![r] = "read"]
    /\ sceneSeen' = [sceneSeen EXCEPT ![r] = sceneFile # "missing"]
    /\ UNCHANGED <<loop, upload, base_url, person_size, sceneFile, called, way, img_id, files, resp, pingPending, pure>>

\* lines 168-185: the handler resumes with the uploaded bytes, decodes them
\* and bounds the size
Decode(r) ==
    /\ pc[r] = "read"
    /\ loop = 0
    /\ \E u \in Uploads :
        /\ upload' = [upload EXCEPT ![r] = u]
        /\ IF u.kind = "unreadable"
           THEN Respond(r, InternalErrorResponse("read")) /\ UNCHANGED person_size
           ELSE IF DecodeFails(u)
                THEN Respond(r, InvalidImageResponse) /\ UNCHANGED person_size
                ELSE LET size == NewSize(u.w, u.h)
                     IN  IF ResizeRaises(size)
                         THEN /\ Respond(r, InternalErrorResponse("height and width must be > 0"))
                              /\ UNCHANGED person_size
                         ELSE /\ person_size' = [person_size EXCEPT ![r] = size]
                              /\ pc' = [pc EXCEPT ![r] = "scene"]
                              /\ loop' = r
                              /\ UNCHANGED resp
    /\ UNCHANGED <<base_url, sceneFile, sceneSeen, called, way, img_id, files, pingPending, pure>>

\* lines 190-194: os.path.exists(SCENE_FILE)
SceneCheck(r) ==
    /\ pc[r] = "scene"
    /\ loop = r
    /\ IF sceneFile = "missing"
       THEN Respond(r, SceneNotFoundResponse)
       ELSE pc' = [pc EXCEPT ![r] = "scene_open"] /\ UNCHANGED <<loop, resp>>
    /\ UNCHANGED <<upload, base_url, person_size, sceneFile, sceneSeen, called, way, img_id, files, pingPending, pure>>

\* lines 196-205: Image.open(SCENE_FILE).convert("RGB"), then the resize
SceneOpen(r) ==
    /\ pc[r] = "scene_open"
    /\ loop = r
    /\ IF sceneFile = "ok"
       THEN pc' = [pc EXCEPT ![r] = "gemini"] /\ UNCHANGED <<loop, resp>>
       ELSE Respond(r, SceneOpenErrorResponse)
    /\ UNCHANGED <<upload, base_url, person_size, sceneFile, sceneSeen, called, way, img_id, files, pingPending, pure>>

\* lines 110-116: the request to the collaborator goes out; the handler,
\* and with it the loop's thread, waits for the answer
GeminiCall(r) ==
    /\ pc[r] = "gemini"
    /\ loop = r
    /\ called' = called \cup {r}
    /\ pc' = [pc EXCEPT ![r] = "gemini_wait"]
    /\ UNCHANGED <<loop, upload, base_url, person_size, sceneFile, sceneSeen, way, img_id, files, resp, pingPending, pure>>

\* lines 117-146 and 210-216: the call raises or returns a response
GeminiReturn(r) ==
    /\ pc[r] = "gemini_wait"
    /\ loop = r
    /\ \E out \in GeminiResponses \cup {[tag |-> "raise", candidates |-> <<>>]} :
        /\ way' = [way EXCEPT ![r] = WayOf(out)]
        /\ IF gerar_imagem_gemini(out) = "image"
           THEN pc' = [pc EXCEPT ![r] = "frame"] /\ UNCHANGED <<loop, resp>>
           ELSE Respond(r, [status |-> 500, body |-> GeminiErrorBody(gerar_imagem_gemini(out))])
    /\ UNCHANGED <<upload, base_url, person_size, sceneFile, sceneSeen, called, img_id, files, pingPending, pure>>

UsedIds == {img_id[r] : r \in Requests} \ {0}

\* an identifier that may repeat an earlier one
AnyId == IDs

\* line 221: a version 4 UUID, taken to differ from every one drawn before
uuid4 == IDs \ UsedIds

\* lines 231-232: Image.open(FRAME_FILE) raises on a file that is no image
FrameRaises(frame) == frame = "corrupt"

\* lines 221-261: the identifier, the frame as it is on disk and the JPEG
\* file.  A failing save may leave the file behind (Image.save removes the
\* file it created only when it can).
SaveFoto(r) ==
    /\ pc[r] = "frame"
    /\ loop = r
    /\ \E id \in uuid4, frame \in FileStates :
        /\ img_id' = [img_id EXCEPT ![r] = id]
        /\ \/ /\ FrameRaises(frame)
              /\ Respond(r, SaveErrorResponse("frame"))
              /\ UNCHANGED <<fotos, wrote>>
           \/ /\ ~FrameRaises(frame)
              /\ fotos' = fotos \cup {id}
              /\ wrote' = [wrote EXCEPT ![r] = {"jpg"}]
              /\ pc' = [pc EXCEPT ![r] = "qr"]
              /\ UNCHANGED <<loop, resp>>
           \/ /\ ~FrameRaises(frame)
              /\ Respond(r, SaveErrorResponse("OSError"))
              /\ \/ UNCHANGED <<fotos, wrote>>
                 \/ /\ fotos' = fotos \cup {id}
                    /\ wrote' = [wrote EXCEPT ![r] = {"jpg"}]
    /\ UNCHANGED <<upload, base_url, person_size, sceneFile, sceneSeen, called, way, qrs, pingPending, pure>>

\* lines 266-294: the QR file and the answer
SaveQr(r) ==
    /\ pc[r] = "qr"
    /\ loop = r
    /\ \E b \in BaseUrls :
        /\ base_url' = [base_url EXCEPT ![r] = b]
        /\ \/ /\ qrs' = qrs \cup {img_id[r]}
              /\ wrote' = [wrote EXCEPT ![r] = {"jpg", "png"}]
              /\ Respond(r, SuccessResponse(b, img_id[r]))
           \/ /\ Respond(r, QrErrorResponse)
              /\ UNCHANGED <<qrs, wrote>>
    /\ UNCHANGED <<upload, person_size, sceneFile, sceneSeen, called, way, img_id, fotos, pingPending, pure>>

\* a client sends GET /ping
PingSend ==
    /\ ~pingPending
    /\ pingPending' = TRUE
    /\ UNCHANGED <<pc, loop, upload, base_url, person_size, sceneFile, sceneSeen, called, way, img_id, files, resp, pure>>

\* lines 87-90: the loop dispatches ping and sends {"msg": "pong"}
ping ==
    /\ pingPending
    /\ loop = 0
    /\ pingPending' = FALSE
    /\ UNCHANGED <<pc, loop, upload, base_url, person_size, sceneFile, sceneSeen, called, way, img_id, files, resp, pure>>

InHandler(r) == pc[r] \notin {"idle", "sent", "done"}

\* the operator replaces, removes or damages the scene asset
SceneChange ==
    /\ \E s \in FileStates \ {sceneFile} :
        /\ sceneFile' = s
        /\ sceneSeen' = [r \in Requests |-> sceneSeen[r] \/ (InHandler(r) /\ s # "missing")]
    /\ UNCHANGED <<pc, loop, upload, base_url, person_size, called, way, img_id, files, resp, pingPending, pure>>

compose(r) ==
    \/ Accept(r)
    \/ Decode(r)
    \/ SceneCheck(r)
    \/ SceneOpen(r)
    \/ GeminiCall(r)
    \/ GeminiReturn(r)
    \/ SaveFoto(r)
    \/ SaveQr(r)

Next ==
    \/ \E r \in Requests : Send(r) \/ compose(r)
    \/ PingSend
    \/ ping
    \/ SceneChange

Spec == Init /\ [][Next]_vars

(***************************************************************************)
(* The subject preparer on its own (lines 180-185), over more sizes.        *)
(***************************************************************************)
InitPrep ==
    /\ ServerInit
    /\ sceneFile = "ok"
    /\ \E w \in PrepDims, h \in PrepDims :
        subject = [w |-> w, h |-> h, size |-> <<w, h>>, step |-> "decoded"]
    /\ NoFrameStep

Prepare ==
    /\ subject.step = "decoded"
    /\ LET size == NewSize(subject.w, subject.h)
       IN  IF ResizeRaises(size) THEN subject' = [subject EXCEPT !.step = "raised"]
           ELSE subject' = [subject EXCEPT !.size = size, !.step = "prepared"]
    /\ UNCHANGED <<server, generated, frame_asset, artifact>>

NextPrep == Prepare

SpecPrep == InitPrep /\ [][NextPrep]_vars

(***************************************************************************)
(* The frame step on its own (lines 226-250), pixel by pixel.               *)
(***************************************************************************)
InitFrame ==
    /\ ServerInit
    /\ sceneFile = "ok"
    /\ subject = NoSubject
    /\ generated \in GenImages
    /\ frame_asset \in {[present |-> FALSE, img |-> NoImage]}
                  \cup {[present |-> TRUE, img |-> f] : f \in FrameImages}
    /\ artifact = NoImage

FrameStep ==
    /\ artifact = NoImage
    /\ artifact' = ApplyFrame(generated, frame_asset.present, frame_asset.img)
    /\ UNCHANGED <<server, subject, generated, frame_asset>>

NextFrame == FrameStep

SpecFrame == InitFrame /\ [][NextFrame]_vars
(***************************************************************************)
(* The event loop is fair to what it can run: it serves a waiting ping and  *)
(* runs every handler step that is ready.  The clients, the operator and    *)
(* the generative collaborator owe nothing: a call may never return.        *)
(***************************************************************************)
LoopStep(r) ==
    \/ Accept(r)
    \/ Decode(r)
    \/ SceneCheck(r)
    \/ SceneOpen(r)
    \/ GeminiCall(r)
    \/ SaveFoto(r)
    \/ SaveQr(r)

FairSpec == Init /\ [][Next]_vars /\ WF_vars(ping) /\ \A r \in Requests : WF_vars(LoopStep(r))

(***************************************************************************)
(* The claims.                                                              *)
(***************************************************************************)
Done(r) == pc[r] = "done"

Keys(r) == DOMAIN resp[r].body

IsError(r) == Keys(r) = {"detail"}

DetailPrefix(r) == resp[r].body.detail[1]

\* C1: a request whose upload does not decode as an image is answered 400
\* with a {detail} body, writes no photo or QR file and never calls the
\* generative collaborator.
C1_InvalidUploadRejected ==
    \A r \in Requests :
        upload[r].kind = "notimage" =>
            /\ Done(r)
            /\ resp[r].status = 400
            /\ IsError(r)
            /\ wrote[r] = {}
            /\ r \notin called

\* an invalid upload answered while another request's files are in storage
C1_Witness ==
    \E r \in Requests :
        /\ upload[r].kind = "notimage"
        /\ Done(r)
        /\ fotos # {}
        /\ qrs # {}

\* C2 as stated: every request handled while the scene file is missing is
\* answered 500, without a call to the collaborator and without a file.
C2_SceneMissingAlways500 ==
    \A r \in Requests :
        (Done(r) /\ ~sceneSeen[r]) =>
            /\ resp[r].status = 500
            /\ r \notin called
            /\ wrote[r] = {}

\* C2 amended: a request handled while the scene file is missing never calls
\* the collaborator and writes no file; it is answered 500, unless its upload
\* does not decode as an image, which is answered 400 before the scene is
\* looked at.
C2_SceneMissing ==
    \A r \in Requests :
        (Done(r) /\ ~sceneSeen[r]) =>
            /\ resp[r].status = IF upload[r].kind = "notimage" THEN 400 ELSE 500
            /\ IsError(r)
            /\ r \notin called
            /\ wrote[r] = {}

\* a decodable upload answered "scene not found" with the scene missing
\* throughout
C2_Witness ==
    \E r \in Requests :
        /\ Done(r)
        /\ ~sceneSeen[r]
        /\ upload[r].kind = "image"
        /\ person_size[r] = <<1024, 512>>
        /\ resp[r].status = 500
        /\ DetailPrefix(r) = "Cenario nao encontrado em "

\* C3: when the generative step fails (the call raises, the response holds no
\* usable image payload, or the payload does not decode), the answer is 500
\* with the message of that way of failing, and no photo or QR file is
\* written.
C3_GenerativeFailureReported ==
    \A r \in Requests :
        (Done(r) /\ way[r] \in {"raised", "empty", "undecodable"}) =>
            /\ resp[r].status = 500
            /\ IsError(r)
            /\ wrote[r] = {}
            /\ way[r] = "raised" => DetailPrefix(r) = "Erro ao chamar Gemini API: "
            /\ way[r] = "empty" =>
                   DetailPrefix(r) = "Resposta da Gemini nao contem nenhuma imagem gerada."
            /\ way[r] = "undecodable" =>
                   DetailPrefix(r) = "Erro ao abrir imagem retornada pela Gemini: "

\* C4: a successful answer carries final_url = origin/static/fotos/<id>.jpg
\* and qr_url = origin/static/qr/<id>.png for the request's own origin and
\* identifier, both files are in storage, and no other request has that
\* identifier.
C4_SuccessUrls ==
    \A r \in Requests :
        resp[r].status = 200 =>
            /\ img_id[r] \in IDs
            /\ resp[r].body.final_url =
                   [base |-> <<base_url[r][1]>>, dir |-> "/static/fotos/",
                    file |-> <<img_id[r], ".jpg">>]
            /\ resp[r].body.qr_url =
                   [base |-> <<base_url[r][1]>>, dir |-> "/static/qr/",
                    file |-> <<img_id[r], ".png">>]
            /\ img_id[r] \in fotos
            /\ img_id[r] \in qrs
            /\ \A q \in Requests \ {r} : img_id[q] # img_id[r]

\* two successful answers for different origins
C4_Witness ==
    \E r \in Requests, q \in Requests :
        /\ r # q
        /\ resp[r].status = 200
        /\ resp[q].status = 200
        /\ base_url[r] # base_url[q]

\* C5: an answer is either 200 with final_url and qr_url, or an error status
\* with detail alone; the status is 400 exactly when the upload does not
\* decode as an image, and 500 for every other failure.
C5_ResponseShapes ==
    \A r \in Requests :
        Done(r) =>
            /\ \/ resp[r].status = 200 /\ Keys(r) = {"final_url", "qr_url"}
               \/ resp[r].status \in {400, 500} /\ IsError(r)
            /\ resp[r].status = 400 <=> upload[r].kind = "notimage"

\* a QR failure answered 500 after the photo was saved
C5_Witness ==
    \E r \in Requests :
        /\ Done(r)
        /\ resp[r].status = 500
        /\ DetailPrefix(r) = "Erro ao salvar QR code: "
        /\ wrote[r] = {"jpg"}

\* C6: while a request waits on the generative call, the process still serves
\* others: a waiting GET /ping is answered even if the call has not
\* returned.
C6_PingServedDuringCall ==
    \A r \in Requests :
        (pc[r] = "gemini_wait" /\ pingPending) ~> (~pingPending \/ pc[r] # "gemini_wait")

\* C7: a prepared subject keeps its size when its longer side is at most 1024;
\* otherwise its longer side is exactly 1024 and its shorter side the
\* proportional value within rounding.
C7_SubjectSize ==
    subject.step = "prepared" =>
        LET w == subject.w
            h == subject.h
            longer == IF w >= h THEN w ELSE h
            Within(out, side) ==
                /\ out * longer <= side * 1024 + longer
                /\ out * longer >= side * 1024 - longer
        IN  IF longer <= 1024 THEN subject.size = <<w, h>>
            ELSE /\ w = longer => subject.size[1] = 1024
                 /\ h = longer => subject.size[2] = 1024
                 /\ Within(subject.size[1], w)
                 /\ Within(subject.size[2], h)

FrameAlphaAt(p) == frame_asset.img.px[p][4]

FrameColorAt(p) == SubSeq(frame_asset.img.px[p], 1, 3)

UnderPhoto(p) == <<p[1] - 25, p[2] - 270>> \in Coords(generated.w, generated.h)

PhotoColorAt(p) == SubSeq(generated.px[<<p[1] - 25, p[2] - 270>>], 1, 3)

Framed == artifact # NoImage /\ frame_asset.present

\* what C8 says of every pixel but the frame's own colour
FramePlacement ==
    /\ artifact.w = frame_asset.img.w
    /\ artifact.h = frame_asset.img.h
    /\ \A p \in Coords(artifact.w, artifact.h) :
        FrameAlphaAt(p) = 0 =>
            artifact.px[p] = IF UnderPhoto(p) THEN PhotoColorAt(p) ELSE <<0, 0, 0>>

\* C8 as stated: with a frame the artifact has the frame's size, shows the
\* generated image from offset (25, 270) where the frame is transparent,
\* clipped to the canvas, and has the frame's own colour wherever the frame
\* is not transparent.
C8_FrameColourWhereNotTransparent ==
    Framed =>
        /\ FramePlacement
        /\ \A p \in Coords(artifact.w, artifact.h) :
            FrameAlphaAt(p) # 0 => artifact.px[p] = FrameColorAt(p)

\* C8 amended: the same, with the frame's own colour wherever the frame is
\* fully opaque (alpha 255); where it is partly transparent the artifact is
\* the blend of the frame over what lies below.
C8_FrameColourWhereOpaque ==
    Framed =>
        /\ FramePlacement
        /\ \A p \in Coords(artifact.w, artifact.h) :
            /\ FrameAlphaAt(p) = 255 => artifact.px[p] = FrameColorAt(p)
            /\ FrameAlphaAt(p) \notin {0, 255} =>
                   LET below == IF UnderPhoto(p) THEN PhotoColorAt(p) ELSE <<0, 0, 0>>
                   IN  artifact.px[p] =
                           [c \in 1..3 |-> Blend(FrameAlphaAt(p), below[c], FrameColorAt(p)[c])]

\* a generated image wider and taller than the window left for it, under a
\* frame with opaque, transparent and half-transparent pixels
C8_Witness ==
    /\ Framed
    /\ 25 + generated.w > artifact.w
    /\ 270 + generated.h > artifact.h
    /\ \E p \in Coords(artifact.w, artifact.h) : FrameAlphaAt(p) = 0 /\ UnderPhoto(p)
    /\ \E p \in Coords(artifact.w, artifact.h) : FrameAlphaAt(p) = 128 /\ UnderPhoto(p)
    /\ \E p \in Coords(artifact.w, artifact.h) : FrameAlphaAt(p) = 255

\* C9: a request whose upload decodes as an image, with no failure of the
\* scene asset, of the generative step or of a file write, is answered 200
\* and its photo is in storage.  (A failure reported as "Erro ao salvar imagem
\* final", a corrupt frame included, counts as a failed write here.)
C9_ValidUploadSucceeds ==
    \A r \in Requests :
        (Done(r) /\ upload[r].kind = "image") =>
            \/ resp[r].status = 200 /\ img_id[r] \in fotos
            \/ way[r] \in {"raised", "empty", "undecodable"}
            \/ /\ IsError(r)
               /\ DetailPrefix(r) \in
                      {"Cenario nao encontrado em ", "Erro ao abrir cenario: ",
                       "Erro ao salvar imagem final: ", "Erro ao salvar QR code: "}

\* C10: when no request is being handled, storage holds <id>.jpg exactly when
\* it holds <id>.png, and a request answered with an error has left no photo.
C10_FilesPaired ==
    (\A r \in Requests : ~InHandler(r)) =>
        /\ \A id \in IDs : id \in fotos <=> id \in qrs
        /\ \A r \in Requests : (Done(r) /\ IsError(r)) => "jpg" \notin wrote[r]
====
